---- MODULE Spec2Model ----
(***************************************************************************)
(* Model of the sender monitor of the probabilistic-micropayment core      *)
(* (package pm, senderMonitor): the per-sender float accounting, the       *)
(* per-sender ticket queue with its consumer goroutine, the fan-in         *)
(* redeemable channel, the TTL cleanup sweep and shutdown.                 *)
(***************************************************************************)
EXTENDS Integers, Sequences, FiniteSets, TLC

\* ------------------------------------------------------------------ bounds
MaxAmount == 1        \* amounts passed to SubFloat / AddFloat: 0..MaxAmount
MaxPending == 2       \* SubFloat is not called beyond this pendingAmount
MaxFace == 1          \* face values of queued tickets: 0..MaxFace
MaxTickets == 2       \* number of QueueTicket calls explored
MaxTime == 2          \* the clock runs 0..MaxTime
TTL == 1              \* the monitor's ttl, in clock units
MaxErrCount == 1      \* the error monitor's threshold
MaxSum == 3           \* the observers of SubFloat/AddFloat totals stop here
MaxCallAmount == 2    \* largest amount of a SubFloat/AddFloat call under Spec
MaxSweepTickets == 1  \* number of QueueTicket calls explored under SpecSweep
MaxLen == 2           \* length of a form value

Addrs == {"a1", "a2"}
Amounts == 0 .. MaxAmount
CallAmounts == 0 .. MaxCallAmount
FaceValues == 0 .. MaxFace
Reserves == {3, 5}
PoolSizes == {0, 2}
Claims == {0, 1}

NoVal == <<>>
ErrNil == "nil"
ErrInsufficient == "cannot subtract from insufficient pendingAmount"
ErrGetSenderInfo == "GetSenderInfo error"
ErrClaimedReserve == "ClaimedReserve error"
Panic == "panic"
SmgrErrs == {ErrNil, ErrGetSenderInfo, ErrClaimedReserve}

VARIABLES
    senders,     \* sm.senders: the map Addr -> remoteSender (a function on the cached addresses)
    quit,        \* sm.quit is closed
    cleaner,     \* the cleanup worker: "none" | "idle" | "sweep" | "exited"
    toVisit,     \* the entries the running sweep has still to range over
    redeemable,  \* the tickets received so far from sm.redeemable
    now,         \* unixNow()
    reserve,     \* the Reserve of each sender on chain, as the sender manager fetches it
    claimed,     \* what smgr.ClaimedReserve(addr, claimant) returns
    poolSize,    \* what rm.GetTranscoderPoolSize() returns
    smgrErr,     \* which sender-manager read fails, if any
    cleared,     \* addresses evicted by a sweep (smgr.Clear called) with no GetSenderInfo since
    info,        \* the sender manager's cached SenderInfo.Reserve per sender (NoVal: none)
    errCount,    \* the error monitor's count per sender
    panicked,    \* the process died of a panic
    nonce,       \* SenderNonce of the next ticket handed to QueueTicket
    ret,         \* observer: the last public call and what it returned
    sumSub,      \* observer: total of SubFloat amounts since the record was created
    sumAdd,      \* observer: total of AddFloat amounts since the record was created
    guardFailed, \* observer: some AddFloat since creation failed the pendingAmount guard
    relSum,      \* observer: face values a queue has emitted for the signal it is processing
    swept,       \* observer: what the last sweep did with each address: "none" | "kept" | "evicted"
    readers,     \* the MaxFloat calls inside their read-locked section, per calling thread
    orphans,     \* addresses with a running consumer whose record was replaced in the map
    http         \* the request the HTTP server is serving, and what its handler has done so far

monitor == <<senders, quit, cleaner, toVisit, redeemable, cleared, info, errCount, panicked, nonce>>
env == <<now, reserve, claimed, poolSize, smgrErr>>
calls == <<ret, sumSub, sumAdd, guardFailed, swept, readers, orphans, http>>
obs == <<ret, sumSub, sumAdd, guardFailed, relSum, swept, readers, orphans, http>>
vars == <<senders, quit, cleaner, toVisit, redeemable, now, reserve, claimed, poolSize,
          smgrErr, cleared, info, errCount, ret, panicked, nonce, sumSub, sumAdd, guardFailed, relSum, swept, readers, orphans, http>>

\* ------------------------------------------------------- ticketQueue
\* A ticket queue: the FIFO, the one-slot max-float signal, the state of the
\* queue loop (idle, or processing the signal mf with running value run).
newTicketQueue ==
    [items |-> <<>>, sig |-> NoVal, loop |-> "idle", mf |-> 0, run |-> 0, stopped |-> FALSE]

\* An Add that appends to a stopped queue as well.
QueueAddAlways(q, ticket) == [q EXCEPT !.items = Append(@, ticket)]

QueueAdd(q, ticket) ==
    IF q.stopped THEN q ELSE [q EXCEPT !.items = Append(@, ticket)]

\* A signal that is dropped while an earlier one waits in the slot.
SignalMaxFloatKeepsFirst(q, maxFloat) ==
    IF q.stopped \/ q.sig # NoVal THEN q ELSE [q EXCEPT !.sig = <<maxFloat>>]

SignalMaxFloat(q, maxFloat) ==
    IF q.stopped THEN q ELSE [q EXCEPT !.sig = <<maxFloat>>]

QueueStop(q) == [q EXCEPT !.stopped = TRUE]

\* ------------------------------------------------------- error monitor
ClearErrCount(ec, a) == [ec EXCEPT ![a] = 0]

\* ------------------------------------------------------- remoteSender
newConsumer == [alive |-> TRUE, sending |-> {}]

\* cache: a fresh record with a started queue and its consumer goroutine.
cache(s, a) ==
    [b \in DOMAIN s \cup {a} |->
        IF b = a
        THEN [pendingAmount |-> 0, lastAccess |-> now,
              queue |-> newTicketQueue, consumer |-> newConsumer]
        ELSE s[b]]

\* ensureCache that stamps every record of the map.
ensureCacheStampsAll(s, a) ==
    LET s1 == IF a \in DOMAIN s THEN s ELSE cache(s, a)
    IN  [b \in DOMAIN s1 |-> [s1[b] EXCEPT !.lastAccess = now]]

\* ensureCache that stamps lastAccess only when it creates the record.
ensureCacheNoStamp(s, a) == IF a \in DOMAIN s THEN s ELSE cache(s, a)

ensureCache(s, a) ==
    LET s1 == IF a \in DOMAIN s THEN s ELSE cache(s, a)
    IN  [s1 EXCEPT ![a].lastAccess = now]

\* A consumer that would take the next ticket while a send is still pending.
ConsumerAlive(c) == c.alive

\* The consumer is at its select: the send of the previous ticket on
\* sm.redeemable has completed.
ConsumerAtSelect(c) == c.alive /\ c.sending = {}

\* ------------------------------------------------------- sender manager
\* The Reserve that smgr.GetSenderInfo(a) answers with: the cached one, or
\* the one on chain when nothing is cached for a.
Info(a) == IF info[a] = NoVal THEN reserve[a] ELSE info[a][1]

\* The cache after a GetSenderInfo(a): an answer is kept until Clear(a).
FetchedInfo(a) ==
    IF smgrErr = ErrGetSenderInfo THEN info ELSE [info EXCEPT ![a] = <<Info(a)>>]

\* ------------------------------------------------------- reserveAlloc / maxFloat
Outcome(e, v, p) == [err |-> e, val |-> v, panic |-> p]

\* reserveAlloc without the claimed reserve.
reserveAllocNoClaim(a) ==
    IF smgrErr = ErrGetSenderInfo
    THEN {Outcome(ErrGetSenderInfo, NoVal, FALSE)}
    ELSE IF poolSize = 0
    THEN {Outcome(ErrNil, <<0>>, FALSE)}
    ELSE {Outcome(ErrNil, <<Info(a) \div poolSize>>, FALSE)}

\* reserveAlloc that subtracts the claimed reserve before it looks at the
\* pool size.
reserveAllocZeroLessClaim(a) ==
    IF smgrErr = ErrGetSenderInfo
    THEN {Outcome(ErrGetSenderInfo, NoVal, FALSE)}
    ELSE IF smgrErr = ErrClaimedReserve
    THEN {Outcome(Panic, NoVal, TRUE),
          Outcome(ErrNil, <<(IF poolSize = 0 THEN 0 ELSE Info(a) \div poolSize) - claimed[a]>>, FALSE)}
    ELSE {Outcome(ErrNil, <<(IF poolSize = 0 THEN 0 ELSE Info(a) \div poolSize) - claimed[a]>>, FALSE)}

\* reserveAlloc that goes on with an allocation of 0 when GetSenderInfo fails.
reserveAllocSwallowsErr(a) ==
    IF smgrErr = ErrGetSenderInfo \/ poolSize = 0
    THEN {Outcome(ErrNil, <<0>>, FALSE)}
    ELSE IF smgrErr = ErrClaimedReserve
    THEN {Outcome(Panic, NoVal, TRUE),
          Outcome(ErrNil, <<(Info(a) \div poolSize) - claimed[a]>>, FALSE)}
    ELSE {Outcome(ErrNil, <<(Info(a) \div poolSize) - claimed[a]>>, FALSE)}

\* reserveAlloc that returns the error of ClaimedReserve.
reserveAllocChecksClaimErr(a) ==
    IF smgrErr = ErrGetSenderInfo
    THEN {Outcome(ErrGetSenderInfo, NoVal, FALSE)}
    ELSE IF smgrErr = ErrClaimedReserve
    THEN {Outcome(ErrClaimedReserve, NoVal, FALSE)}
    ELSE IF poolSize = 0
    THEN {Outcome(ErrNil, <<0>>, FALSE)}
    ELSE {Outcome(ErrNil, <<(Info(a) \div poolSize) - claimed[a]>>, FALSE)}

\* The results reserveAlloc can produce.  The error of ClaimedReserve is
\* never inspected; the value that comes with it is nil (big.Int.Sub then
\* dereferences nil) or whatever the sender manager hands back.
reserveAlloc(a) ==
    IF smgrErr = ErrGetSenderInfo
    THEN {Outcome(ErrGetSenderInfo, NoVal, FALSE)}
    ELSE IF poolSize = 0
    THEN {Outcome(ErrNil, <<0>>, FALSE)}
    ELSE IF smgrErr = ErrClaimedReserve
    THEN {Outcome(Panic, NoVal, TRUE),
          Outcome(ErrNil, <<(Info(a) \div poolSize) - claimed[a]>>, FALSE)}
    ELSE {Outcome(ErrNil, <<(Info(a) \div poolSize) - claimed[a]>>, FALSE)}

maxFloat(s, a) ==
    {IF r.err # ErrNil THEN r
     ELSE Outcome(ErrNil, <<r.val[1] - s[a].pendingAmount>>, FALSE) : r \in reserveAlloc(a)}

\* GetSenderInfo was called for a and answered.
Fetched(a) == IF smgrErr = ErrGetSenderInfo THEN cleared ELSE cleared \ {a}

Ret(op, a, e, v) == [op |-> op, addr |-> a, err |-> e, val |-> v]

\* The threads that call MaxFloat step by step, and a thread outside MaxFloat.
Threads == {"t1", "t2"}
Idle == [addr |-> "none", pc |-> "idle"]

\* ------------------------------------------------------- HTTP requests
\* Form values are strings over a sign and a digit, as sequences of characters.
Chars == {"-", "7"}
Strings == UNION {[1 .. n -> Chars] : n \in 0 .. MaxLen}
ParamNames == {"amount", "depositAmount", "reserveAmount"}
Forms == [ParamNames -> Strings]
ParamLists == {<<>>, <<"amount">>, <<"depositAmount", "reserveAmount">>}
Handlers == {"fundDepositAndReserve", "fundDeposit", "unlock", "cancelUnlock", "withdraw"}

\* No request is being served.
NoRequest ==
    [pc |-> "idle", handler |-> "none", client |-> FALSE,
     form |-> [p \in ParamNames |-> <<>>], badForm |-> FALSE, params |-> <<>>,
     invoked |-> FALSE, calls |-> <<>>, status |-> 0, body |-> <<>>]

\* A public call can take the monitor lock: no sweep holds it.
Callable == ~panicked /\ cleaner # "sweep"

Init ==
    /\ senders = [b \in {} |-> 0]
    /\ quit = FALSE
    /\ cleaner = "none"
    /\ toVisit = {}
    /\ redeemable = <<>>
    /\ now = 0
    /\ reserve = [a \in Addrs |-> 5]
    /\ claimed = [a \in Addrs |-> 1]
    /\ poolSize = 2
    /\ smgrErr = ErrNil
    /\ cleared = {}
    /\ info = [a \in Addrs |-> NoVal]
    /\ errCount = [a \in Addrs |-> 0]
    /\ ret = Ret("none", "none", ErrNil, NoVal)
    /\ panicked = FALSE
    /\ nonce = 0
    /\ sumSub = [a \in Addrs |-> 0]
    /\ sumAdd = [a \in Addrs |-> 0]
    /\ guardFailed = [a \in Addrs |-> FALSE]
    /\ relSum = [a \in Addrs |-> 0]
    /\ swept = [a \in Addrs |-> "none"]
    /\ readers = [t \in Threads |-> Idle]
    /\ orphans = {}
    /\ http = NoRequest

\* ------------------------------------------------------- public operations
\* QueueTicket(addr, ticket): ensureCache, then queue.Add(ticket).
QueueTicket(a, fv) ==
    /\ Callable
    /\ LET s1 == ensureCache(senders, a)
           ticket == [sender |-> a, nonce |-> nonce, faceValue |-> fv]
       IN  senders' = [s1 EXCEPT ![a].queue = QueueAdd(@, ticket)]
    /\ nonce' = nonce + 1
    /\ UNCHANGED <<quit, cleaner, toVisit, redeemable, cleared, info, errCount, panicked>>
    /\ UNCHANGED env

\* SubFloat that stores the amount instead of adding it.
SubFloatAssign(a, amount) ==
    /\ Callable
    /\ LET s1 == ensureCache(senders, a)
       IN  senders' = [s1 EXCEPT ![a].pendingAmount = amount]
    /\ errCount' = ClearErrCount(errCount, a)
    /\ UNCHANGED <<quit, cleaner, toVisit, redeemable, cleared, info, panicked, nonce>>
    /\ UNCHANGED env

\* SubFloat that leaves the error count alone.
SubFloatKeepsErrCount(a, amount) ==
    /\ Callable
    /\ LET s1 == ensureCache(senders, a)
       IN  senders' = [s1 EXCEPT ![a].pendingAmount = @ + amount]
    /\ UNCHANGED <<quit, cleaner, toVisit, redeemable, cleared, info, errCount, panicked, nonce>>
    /\ UNCHANGED env

\* SubFloat that stops pendingAmount at the reserve allocation.
SubFloatCapped(a, amount) ==
    /\ Callable
    /\ LET s1 == ensureCache(senders, a)
           alloc == IF poolSize = 0 THEN 0 ELSE (Info(a) \div poolSize) - claimed[a]
           sum == s1[a].pendingAmount + amount
       IN  senders' = [s1 EXCEPT ![a].pendingAmount =
                         IF sum <= alloc \/ sum <= @ THEN sum
                         ELSE IF alloc > @ THEN alloc ELSE @]
    /\ errCount' = ClearErrCount(errCount, a)
    /\ UNCHANGED <<quit, cleaner, toVisit, redeemable, cleared, info, panicked, nonce>>
    /\ UNCHANGED env

\* SubFloat that signals the lowered max float to the queue.
SubFloatSignals(a, amount) ==
    /\ Callable
    /\ LET s1 == ensureCache(senders, a)
           alloc == IF poolSize = 0 THEN 0 ELSE (Info(a) \div poolSize) - claimed[a]
           s2 == [s1 EXCEPT ![a].pendingAmount = @ + amount]
       IN  senders' = [s2 EXCEPT ![a].queue = SignalMaxFloat(@, alloc - s2[a].pendingAmount)]
    /\ errCount' = ClearErrCount(errCount, a)
    /\ UNCHANGED <<quit, cleaner, toVisit, redeemable, cleared, info, panicked, nonce>>
    /\ UNCHANGED env

\* SubFloat(addr, amount): pendingAmount += amount; ClearErrCount(addr).
SubFloat(a, amount) ==
    /\ Callable
    /\ LET s1 == ensureCache(senders, a)
       IN  senders' = [s1 EXCEPT ![a].pendingAmount = @ + amount]
    /\ errCount' = ClearErrCount(errCount, a)
    /\ UNCHANGED <<quit, cleaner, toVisit, redeemable, cleared, info, panicked, nonce>>
    /\ UNCHANGED env

\* What AddFloat can come to: the guard's error, or what maxFloat answers
\* after the subtraction (val is then the max float that is signalled).
AddFloatOutcomes(a, amount) ==
    LET s1 == ensureCache(senders, a)
        s2 == [s1 EXCEPT ![a].pendingAmount = @ - amount]
    IN  IF s1[a].pendingAmount < amount
        THEN {Outcome(ErrInsufficient, NoVal, FALSE)}
        ELSE maxFloat(s2, a)

\* AddFloat without the pendingAmount guard.
AddFloatNoGuard(a, amount, r) ==
    /\ Callable
    /\ r \in AddFloatOutcomes(a, amount)
    /\ LET s1 == ensureCache(senders, a)
           s2 == [s1 EXCEPT ![a].pendingAmount = @ - amount]
       IN  /\ errCount' = ClearErrCount(errCount, a)
           /\ cleared' = Fetched(a)
           /\ info' = FetchedInfo(a)
           /\ panicked' = r.panic
           /\ senders' = IF r.err = ErrNil
                         THEN [s2 EXCEPT ![a].queue = SignalMaxFloat(@, r.val[1])]
                         ELSE s2
    /\ UNCHANGED <<quit, cleaner, toVisit, redeemable, nonce>>
    /\ UNCHANGED env

\* AddFloat that resets the error count before the guard.
AddFloatClearsFirst(a, amount, r) ==
    /\ Callable
    /\ r \in AddFloatOutcomes(a, amount)
    /\ errCount' = ClearErrCount(errCount, a)
    /\ LET s1 == ensureCache(senders, a)
           s2 == [s1 EXCEPT ![a].pendingAmount = @ - amount]
       IN  IF s1[a].pendingAmount < amount
           THEN /\ senders' = s1
                /\ UNCHANGED <<cleared, info, panicked>>
           ELSE /\ cleared' = Fetched(a)
                /\ info' = FetchedInfo(a)
                /\ panicked' = r.panic
                /\ senders' = IF r.err = ErrNil
                              THEN [s2 EXCEPT ![a].queue = SignalMaxFloat(@, r.val[1])]
                              ELSE s2
    /\ UNCHANGED <<quit, cleaner, toVisit, redeemable, nonce>>
    /\ UNCHANGED env

\* AddFloat that restores pendingAmount when maxFloat fails.
AddFloatRollsBack(a, amount, r) ==
    /\ Callable
    /\ r \in AddFloatOutcomes(a, amount)
    /\ LET s1 == ensureCache(senders, a)
           s2 == [s1 EXCEPT ![a].pendingAmount = @ - amount]
       IN  IF s1[a].pendingAmount < amount
           THEN /\ senders' = s1
                /\ UNCHANGED <<errCount, cleared, info, panicked>>
           ELSE /\ errCount' = ClearErrCount(errCount, a)
                /\ cleared' = Fetched(a)
                /\ info' = FetchedInfo(a)
                /\ panicked' = r.panic
                /\ senders' = IF r.err = ErrNil
                              THEN [s2 EXCEPT ![a].queue = SignalMaxFloat(@, r.val[1])]
                              ELSE s1
    /\ UNCHANGED <<quit, cleaner, toVisit, redeemable, nonce>>
    /\ UNCHANGED env

\* AddFloat that signals the reserve allocation instead of the max float.
AddFloatSignalsAlloc(a, amount, r) ==
    /\ Callable
    /\ r \in AddFloatOutcomes(a, amount)
    /\ LET s1 == ensureCache(senders, a)
           s2 == [s1 EXCEPT ![a].pendingAmount = @ - amount]
       IN  IF s1[a].pendingAmount < amount
           THEN /\ senders' = s1
                /\ UNCHANGED <<errCount, cleared, info, panicked>>
           ELSE /\ errCount' = ClearErrCount(errCount, a)
                /\ cleared' = Fetched(a)
                /\ info' = FetchedInfo(a)
                /\ panicked' = r.panic
                /\ senders' = IF r.err = ErrNil
                              THEN [s2 EXCEPT ![a].queue =
                                      SignalMaxFloat(@, r.val[1] + s2[a].pendingAmount)]
                              ELSE s2
    /\ UNCHANGED <<quit, cleaner, toVisit, redeemable, nonce>>
    /\ UNCHANGED env

\* AddFloat(addr, amount) with outcome r: the guard, pendingAmount -= amount,
\* ClearErrCount, then maxFloat and, when it answers, SignalMaxFloat.
AddFloat(a, amount, r) ==
    /\ Callable
    /\ r \in AddFloatOutcomes(a, amount)
    /\ LET s1 == ensureCache(senders, a)
           s2 == [s1 EXCEPT ![a].pendingAmount = @ - amount]
       IN  IF s1[a].pendingAmount < amount
           THEN /\ senders' = s1
                /\ UNCHANGED <<errCount, cleared, info, panicked>>
           ELSE /\ errCount' = ClearErrCount(errCount, a)
                /\ cleared' = Fetched(a)
                /\ info' = FetchedInfo(a)
                /\ panicked' = r.panic
                /\ senders' = IF r.err = ErrNil
                              THEN [s2 EXCEPT ![a].queue = SignalMaxFloat(@, r.val[1])]
                              ELSE s2
    /\ UNCHANGED <<quit, cleaner, toVisit, redeemable, nonce>>
    /\ UNCHANGED env

MaxFloatOutcomes(a) == maxFloat(ensureCache(senders, a), a)

\* MaxFloat that settles the pending amount.
MaxFloatResetsPending(a, r) ==
    /\ Callable
    /\ r \in MaxFloatOutcomes(a)
    /\ senders' = [ensureCache(senders, a) EXCEPT ![a].pendingAmount = 0]
    /\ panicked' = r.panic
    /\ cleared' = Fetched(a)
    /\ info' = FetchedInfo(a)
    /\ UNCHANGED <<quit, cleaner, toVisit, redeemable, errCount, nonce>>
    /\ UNCHANGED env

\* MaxFloat(addr) with outcome r: ensureCache, then maxFloat.
MaxFloat(a, r) ==
    /\ Callable
    /\ r \in MaxFloatOutcomes(a)
    /\ senders' = ensureCache(senders, a)
    /\ panicked' = r.panic
    /\ cleared' = Fetched(a)
    /\ info' = FetchedInfo(a)
    /\ UNCHANGED <<quit, cleaner, toVisit, redeemable, errCount, nonce>>
    /\ UNCHANGED env

\* MaxFloat step by step.  No call is between RLock and RUnlock.
NoReaders == \A t \in Threads : readers[t] = Idle

\* sm.mu.RLock(): granted while no writer holds the lock, whoever reads.
MaxFloatRLock(t, a) ==
    /\ Callable
    /\ readers[t] = Idle
    /\ readers' = [readers EXCEPT ![t] = [addr |-> a, pc |-> "ensureCache"]]
    /\ UNCHANGED <<ret, sumSub, sumAdd, guardFailed, relSum, swept, orphans, http>>
    /\ UNCHANGED monitor
    /\ UNCHANGED env

\* Thread t is about to insert into sm.senders: it has seen no record, or
\* it will see none.
WillInsert(t) ==
    \/ readers[t].pc = "cache"
    \/ readers[t].pc = "ensureCache" /\ readers[t].addr \notin DOMAIN senders

\* The ensureCache of thread t runs against a map access of another thread
\* in its read-locked section: t inserts into sm.senders, or the other one
\* is about to.
MapRace(t) ==
    \E u \in Threads \ {t} :
        /\ readers[u] # Idle
        /\ WillInsert(t) \/ WillInsert(u)

\* ensureCache(addr) under the read lock, up to the nil test: a record that
\* is there is stamped, a missing one sends the thread into cache().
\* Unsynchronized accesses of the map go through, or the runtime stops the
\* process (concurrent map writes).
MaxFloatEnsureCache(t, fatal) ==
    /\ ~panicked
    /\ readers[t].pc = "ensureCache"
    /\ fatal => MapRace(t)
    /\ IF fatal
       THEN /\ panicked' = TRUE
            /\ UNCHANGED <<senders, readers>>
       ELSE IF readers[t].addr \in DOMAIN senders
       THEN /\ senders' = ensureCache(senders, readers[t].addr)
            /\ readers' = [readers EXCEPT ![t].pc = "maxFloat"]
            /\ UNCHANGED panicked
       ELSE /\ readers' = [readers EXCEPT ![t].pc = "cache"]
            /\ UNCHANGED <<senders, panicked>>
    /\ UNCHANGED <<ret, sumSub, sumAdd, guardFailed, relSum, swept, orphans, http>>
    /\ UNCHANGED <<quit, cleaner, toVisit, redeemable, cleared, info, errCount, nonce>>
    /\ UNCHANGED env

\* cache(addr) of a thread that has seen no record: a new queue, a new
\* consumer goroutine, and the record is stored whatever the map holds by
\* now; the consumer of a record that is replaced goes on running.  Then the
\* stamp of ensureCache.
MaxFloatCache(t, fatal) ==
    /\ ~panicked
    /\ readers[t].pc = "cache"
    /\ fatal => MapRace(t)
    /\ IF fatal
       THEN /\ panicked' = TRUE
            /\ UNCHANGED <<senders, readers, orphans>>
       ELSE /\ senders' = cache(senders, readers[t].addr)
            /\ orphans' = IF readers[t].addr \in DOMAIN senders
                           THEN orphans \cup {readers[t].addr}
                           ELSE orphans
            /\ readers' = [readers EXCEPT ![t].pc = "maxFloat"]
            /\ UNCHANGED panicked
    /\ UNCHANGED <<ret, sumSub, sumAdd, guardFailed, relSum, swept, http>>
    /\ UNCHANGED <<quit, cleaner, toVisit, redeemable, cleared, info, errCount, nonce>>
    /\ UNCHANGED env

\* return sm.maxFloat(addr), with outcome r, and the deferred RUnlock.
MaxFloatReturn(t, r) ==
    /\ ~panicked
    /\ readers[t].pc = "maxFloat"
    /\ r \in maxFloat(senders, readers[t].addr)
    /\ panicked' = r.panic
    /\ cleared' = Fetched(readers[t].addr)
    /\ info' = FetchedInfo(readers[t].addr)
    /\ ret' = Ret("MaxFloat", readers[t].addr, r.err, r.val)
    /\ readers' = [readers EXCEPT ![t] = Idle]
    /\ UNCHANGED <<sumSub, sumAdd, guardFailed, relSum, swept, orphans, http>>
    /\ UNCHANGED <<senders, quit, cleaner, toVisit, redeemable, errCount, nonce>>
    /\ UNCHANGED env

\* Start(): go startCleanupLoop().
Start ==
    /\ ~panicked
    /\ cleaner = "none"
    /\ cleaner' = "idle"
    /\ UNCHANGED <<senders, quit, toVisit, redeemable, cleared, info, errCount, panicked, nonce>>
    /\ UNCHANGED env

\* Stop that also drops every record.
StopDropsRecords ==
    /\ ~panicked
    /\ quit' = TRUE
    /\ panicked' = quit
    /\ senders' = [b \in {} |-> 0]
    /\ UNCHANGED <<cleaner, toVisit, redeemable, cleared, info, errCount, nonce>>
    /\ UNCHANGED env

\* Stop(): close(sm.quit); closing a closed channel panics.
Stop ==
    /\ ~panicked
    /\ quit' = TRUE
    /\ panicked' = quit
    /\ UNCHANGED <<senders, cleaner, toVisit, redeemable, cleared, info, errCount, nonce>>
    /\ UNCHANGED env

\* ------------------------------------------------------- cleanup worker
\* An expiry test that also fires at exactly ttl.
ExpiredAtTTL(a) == now - senders[a].lastAccess >= TTL

Expired(a) == now - senders[a].lastAccess > TTL

\* The ticker fires: cleanup() takes the monitor lock and starts to range
\* over the map.
CleanupBegin ==
    /\ ~panicked
    /\ cleaner = "idle"
    /\ cleaner' = "sweep"
    /\ toVisit' = DOMAIN senders
    /\ UNCHANGED <<senders, quit, redeemable, cleared, info, errCount, panicked, nonce>>
    /\ UNCHANGED env

\* A sweep that removes the record without smgr.Clear.
CleanupVisitNoClear(a) ==
    /\ ~panicked
    /\ cleaner = "sweep"
    /\ a \in toVisit
    /\ toVisit' = toVisit \ {a}
    /\ IF Expired(a)
       THEN /\ ConsumerAtSelect(senders[a].consumer)
            /\ senders' = [b \in DOMAIN senders \ {a} |-> senders[b]]
            /\ cleared' = cleared \cup {a}
            /\ UNCHANGED info
       ELSE UNCHANGED <<senders, cleared, info>>
    /\ UNCHANGED <<quit, cleaner, redeemable, errCount, panicked, nonce>>
    /\ UNCHANGED env

\* A sweep that calls smgr.Clear for every record it ranges over.
CleanupVisitClearsAll(a) ==
    /\ ~panicked
    /\ cleaner = "sweep"
    /\ a \in toVisit
    /\ toVisit' = toVisit \ {a}
    /\ info' = [info EXCEPT ![a] = NoVal]
    /\ IF Expired(a)
       THEN /\ ConsumerAtSelect(senders[a].consumer)
            /\ senders' = [b \in DOMAIN senders \ {a} |-> senders[b]]
            /\ cleared' = cleared \cup {a}
       ELSE UNCHANGED <<senders, cleared>>
    /\ UNCHANGED <<quit, cleaner, redeemable, errCount, panicked, nonce>>
    /\ UNCHANGED env

\* One entry of the range.  An expired entry is removed after the send on
\* its done channel, which the consumer takes at its select (it then stops
\* its queue and returns); the map entry is deleted and smgr.Clear called.
CleanupVisit(a) ==
    /\ ~panicked
    /\ cleaner = "sweep"
    /\ a \in toVisit
    /\ toVisit' = toVisit \ {a}
    /\ IF Expired(a)
       THEN /\ ConsumerAtSelect(senders[a].consumer)
            /\ senders' = [b \in DOMAIN senders \ {a} |-> senders[b]]
            /\ cleared' = cleared \cup {a}
            /\ info' = [info EXCEPT ![a] = NoVal]
       ELSE UNCHANGED <<senders, cleared, info>>
    /\ UNCHANGED <<quit, cleaner, redeemable, errCount, panicked, nonce>>
    /\ UNCHANGED env

\* The range is over: the deferred Unlock.
CleanupEnd ==
    /\ ~panicked
    /\ cleaner = "sweep"
    /\ toVisit = {}
    /\ cleaner' = "idle"
    /\ UNCHANGED <<senders, quit, toVisit, redeemable, cleared, info, errCount, panicked, nonce>>
    /\ UNCHANGED env

\* startCleanupLoop takes the quit case of its select.
CleanupQuit ==
    /\ ~panicked
    /\ cleaner = "idle"
    /\ quit
    /\ cleaner' = "exited"
    /\ UNCHANGED <<senders, quit, toVisit, redeemable, cleared, info, errCount, panicked, nonce>>
    /\ UNCHANGED env

\* ------------------------------------------------------- queue loop
\* The queue loop takes the signal out of the slot.
QueueTakeSignal(a) ==
    /\ ~panicked
    /\ a \in DOMAIN senders
    /\ LET q == senders[a].queue
       IN  /\ ~q.stopped
           /\ q.loop = "idle"
           /\ q.sig # NoVal
           /\ senders' = [senders EXCEPT ![a].queue =
                            [q EXCEPT !.loop = "proc", !.mf = q.sig[1],
                                      !.run = q.sig[1], !.sig = NoVal]]
    /\ UNCHANGED <<quit, cleaner, toVisit, redeemable, cleared, info, errCount, panicked, nonce>>
    /\ UNCHANGED env

\* A cover test that wants the running value above the face value.
ReleasableStrict(q) ==
    /\ q.loop = "proc"
    /\ q.items # <<>>
    /\ Head(q.items).faceValue < q.run

\* The head is covered by the running value.
Releasable(q) ==
    /\ q.loop = "proc"
    /\ q.items # <<>>
    /\ Head(q.items).faceValue <= q.run

\* A queue that emits its head and keeps it at the front.
ReleasedKeepsHead(q) == [q EXCEPT !.run = @ - Head(q.items).faceValue]

\* A queue that emits its head without charging the running value.
ReleasedNoDeduct(q) == [q EXCEPT !.items = Tail(@)]

\* The queue after it has emitted its head.
Released(q) ==
    [q EXCEPT !.items = Tail(@), !.run = @ - Head(q.items).faceValue]

\* A consumer that receives the head and never sends it on.
ConsumerReceiveDrops(a) ==
    /\ ~panicked
    /\ a \in DOMAIN senders
    /\ LET q == senders[a].queue
           c == senders[a].consumer
       IN  /\ ~q.stopped
           /\ Releasable(q)
           /\ ConsumerAtSelect(c)
           /\ senders' = [senders EXCEPT ![a].queue = Released(q)]
    /\ UNCHANGED <<quit, cleaner, toVisit, redeemable, cleared, info, errCount, panicked, nonce>>
    /\ UNCHANGED env

\* The queue emits its head on Redeemable() and the consumer of the record
\* receives it at its select (line 242); the consumer then sends it on
\* sm.redeemable (line 243).
ConsumerReceive(a) ==
    /\ ~panicked
    /\ a \in DOMAIN senders
    /\ LET q == senders[a].queue
           c == senders[a].consumer
       IN  /\ ~q.stopped
           /\ Releasable(q)
           /\ ConsumerAtSelect(c)
           /\ senders' = [senders EXCEPT
                            ![a].queue = Released(q),
                            ![a].consumer = [c EXCEPT !.sending = @ \cup {Head(q.items)}]]
    /\ UNCHANGED <<quit, cleaner, toVisit, redeemable, cleared, info, errCount, panicked, nonce>>
    /\ UNCHANGED env

\* Nothing more is covered: the queue loop awaits the next signal.
QueueAwait(a) ==
    /\ ~panicked
    /\ a \in DOMAIN senders
    /\ LET q == senders[a].queue
       IN  /\ ~q.stopped
           /\ q.loop = "proc"
           /\ ~Releasable(q)
           /\ senders' = [senders EXCEPT ![a].queue =
                            [q EXCEPT !.loop = "idle", !.mf = 0, !.run = 0]]
    /\ UNCHANGED <<quit, cleaner, toVisit, redeemable, cleared, info, errCount, panicked, nonce>>
    /\ UNCHANGED env

\* ------------------------------------------------------- consumer loop
\* The consumer takes the quit case of its select: queue.Stop(); return.
ConsumerQuit(a) ==
    /\ ~panicked
    /\ quit
    /\ a \in DOMAIN senders
    /\ ConsumerAtSelect(senders[a].consumer)
    /\ senders' = [senders EXCEPT ![a].queue = QueueStop(@),
                                  ![a].consumer = [@ EXCEPT !.alive = FALSE]]
    /\ UNCHANGED <<quit, cleaner, toVisit, redeemable, cleared, info, errCount, panicked, nonce>>
    /\ UNCHANGED env

\* The external redeemer receives from Redeemable(): the consumer's send on
\* sm.redeemable completes.
RedeemerReceive(a) ==
    /\ ~panicked
    /\ a \in DOMAIN senders
    /\ \E t \in senders[a].consumer.sending :
         /\ redeemable' = Append(redeemable, t)
         /\ senders' = [senders EXCEPT ![a].consumer.sending = @ \ {t}]
    /\ UNCHANGED <<quit, cleaner, toVisit, cleared, info, errCount, panicked, nonce>>
    /\ UNCHANGED env

\* ------------------------------------------------------- environment
AdvanceTime ==
    /\ ~panicked
    /\ now < MaxTime
    /\ now' = now + 1
    /\ UNCHANGED <<reserve, claimed, poolSize, smgrErr>>
    /\ UNCHANGED monitor

SetReserve(a, r) ==
    /\ ~panicked
    /\ reserve[a] # r
    /\ reserve' = [reserve EXCEPT ![a] = r]
    /\ UNCHANGED <<now, claimed, poolSize, smgrErr>>
    /\ UNCHANGED monitor

SetClaimed(a, c) ==
    /\ ~panicked
    /\ claimed[a] # c
    /\ claimed' = [claimed EXCEPT ![a] = c]
    /\ UNCHANGED <<now, reserve, poolSize, smgrErr>>
    /\ UNCHANGED monitor

SetPoolSize(p) ==
    /\ ~panicked
    /\ poolSize # p
    /\ poolSize' = p
    /\ UNCHANGED <<now, reserve, claimed, smgrErr>>
    /\ UNCHANGED monitor

SetSmgrErr(e) ==
    /\ ~panicked
    /\ smgrErr # e
    /\ smgrErr' = e
    /\ UNCHANGED <<now, reserve, claimed, poolSize>>
    /\ UNCHANGED monitor

\* errorMonitor.AcceptErr(addr): true, and counted, while below the threshold.
AcceptErr(a) ==
    /\ ~panicked
    /\ errCount[a] < MaxErrCount
    /\ errCount' = [errCount EXCEPT ![a] = @ + 1]
    /\ UNCHANGED <<senders, quit, cleaner, toVisit, redeemable, cleared, info, panicked, nonce>>
    /\ UNCHANGED env

\* ------------------------------------------------------- observers
Pending(a) == IF a \in DOMAIN senders THEN senders[a].pendingAmount ELSE 0

\* The totals restart with the record.
SumSub(a) == IF a \in DOMAIN senders THEN sumSub[a] ELSE 0
SumAdd(a) == IF a \in DOMAIN senders THEN sumAdd[a] ELSE 0
GuardFailed(a) == a \in DOMAIN senders /\ guardFailed[a]

Observe(op, a, x, y, e, v) ==
    /\ ret' = Ret(op, a, e, v)
    /\ sumSub' = [sumSub EXCEPT ![a] = SumSub(a) + x]
    /\ sumAdd' = [sumAdd EXCEPT ![a] = SumAdd(a) + y]
    /\ guardFailed' = [guardFailed EXCEPT ![a] = GuardFailed(a) \/ e = ErrInsufficient]
    /\ UNCHANGED <<relSum, swept, readers, orphans, http>>

\* The reserve allocation as the glossary states it.
Share(a) == IF poolSize = 0 THEN 0 ELSE (Info(a) \div poolSize) - claimed[a]

Sig(a) == IF a \in DOMAIN senders THEN senders[a].queue.sig ELSE NoVal

\* ------------------------------------------------------- specifications
\* Spec: the float accounting of one sender against every answer of the
\* external readers.  The queue workers, the clock and shutdown touch none
\* of pendingAmount, errCount or a call's result, and are left to the other
\* specifications.
CallQueueTicket(a) ==
    /\ nonce < 1
    /\ QueueTicket(a, MaxFace)
    /\ Observe("QueueTicket", a, 0, 0, ErrNil, NoVal)

CallSubFloat(a) ==
    \E x \in CallAmounts :
        /\ SumSub(a) + x <= MaxSum
        /\ SubFloat(a, x)
        /\ Observe("SubFloat", a, x, 0, ErrNil, NoVal)

CallAddFloatWith(a, y) ==
    \E r \in AddFloatOutcomes(a, y) :
        /\ AddFloat(a, y, r)
        /\ Observe("AddFloat", a, 0, y, r.err, NoVal)

CallAddFloat(a) ==
    \E y \in CallAmounts :
        /\ SumAdd(a) + y <= MaxSum
        /\ CallAddFloatWith(a, y)

CallMaxFloat(a) ==
    \E r \in MaxFloatOutcomes(a) :
        /\ MaxFloat(a, r)
        /\ Observe("MaxFloat", a, 0, 0, r.err, r.val)

Next ==
    \/ CallQueueTicket("a1")
    \/ CallSubFloat("a1")
    \/ CallAddFloat("a1")
    \/ CallMaxFloat("a1")
    \/ \E r \in Reserves : SetReserve("a1", r) /\ UNCHANGED obs
    \/ \E c \in Claims : SetClaimed("a1", c) /\ UNCHANGED obs
    \/ \E p \in PoolSizes : SetPoolSize(p) /\ UNCHANGED obs
    \/ \E e \in SmgrErrs : SetSmgrErr(e) /\ UNCHANGED obs
    \/ AcceptErr("a1") /\ UNCHANGED obs

Spec == Init /\ [][Next]_vars


\* SpecQueue: the ticket flow against readers that answer (the share is 1):
\* sender a1 under QueueTicket, SubFloat and AddFloat, sender a2 as the other
\* traffic (tickets, and AddFloat calls that signal its share), the queue
\* loops, the consumers and the redeemer.

FlowQueueTicket(a) ==
    \E fv \in FaceValues :
        /\ nonce < MaxTickets
        /\ QueueTicket(a, fv)
        /\ UNCHANGED obs

FlowSubFloat(a) ==
    \E x \in Amounts :
        /\ Pending(a) + x <= MaxPending
        /\ SubFloat(a, x)
        /\ UNCHANGED obs

FlowAddFloatWith(a, y) ==
    \E r \in AddFloatOutcomes(a, y) :
        /\ AddFloat(a, y, r)
        /\ UNCHANGED obs

FlowAddFloat(a) == \E y \in Amounts : FlowAddFloatWith(a, y)

FlowTakeSignal(a) ==
    /\ QueueTakeSignal(a)
    /\ relSum' = [relSum EXCEPT ![a] = 0]
    /\ UNCHANGED calls

FlowReceive(a) ==
    /\ ConsumerReceive(a)
    /\ relSum' = [relSum EXCEPT ![a] = @ + Head(senders[a].queue.items).faceValue]
    /\ UNCHANGED calls

FlowAwait(a) ==
    /\ QueueAwait(a)
    /\ relSum' = [relSum EXCEPT ![a] = 0]
    /\ UNCHANGED calls

FlowRedeem(a) ==
    /\ RedeemerReceive(a)
    /\ UNCHANGED obs

NextQueue ==
    \/ FlowSubFloat("a1")
    \/ \E a \in Addrs :
        \/ FlowQueueTicket(a)
        \/ FlowAddFloat(a)
        \/ FlowTakeSignal(a)
        \/ FlowReceive(a)
        \/ FlowAwait(a)
        \/ FlowRedeem(a)

SpecQueue == Init /\ [][NextQueue]_vars


\* SpecSweep: the life of the record of one sender under the clock and the
\* cleanup worker: every public call, the queue workers and the redeemer,
\* Start, the sweep and its handshake with the consumers.
SweepQueueTicket(a) ==
    \E fv \in FaceValues :
        /\ nonce < MaxSweepTickets
        /\ QueueTicket(a, fv)
        /\ Observe("QueueTicket", a, 0, 0, ErrNil, NoVal)

SweepSubFloat(a) ==
    \E x \in Amounts :
        /\ Pending("a1") + x <= MaxPending
        /\ SubFloat(a, x)
        /\ Observe("SubFloat", a, 0, 0, ErrNil, NoVal)

SweepAddFloat(a) ==
    \E y \in CallAmounts :
        \E r \in AddFloatOutcomes(a, y) :
            /\ AddFloat(a, y, r)
            /\ Observe("AddFloat", a, 0, 0, r.err, NoVal)

SweepMaxFloat(a) ==
    \E r \in MaxFloatOutcomes("a1") :
        /\ MaxFloat(a, r)
        /\ Observe("MaxFloat", a, 0, 0, r.err, r.val)

NextSweep ==
    \/ SweepQueueTicket("a1")
    \/ SweepSubFloat("a1")
    \/ SweepAddFloat("a1")
    \/ SweepMaxFloat("a1")
    \/ QueueTakeSignal("a1") /\ UNCHANGED obs
    \/ ConsumerReceive("a1") /\ UNCHANGED obs
    \/ QueueAwait("a1") /\ UNCHANGED obs
    \/ RedeemerReceive("a1") /\ UNCHANGED obs
    \/ Start /\ UNCHANGED obs
    \/ AdvanceTime /\ UNCHANGED obs
    \/ CleanupBegin /\ UNCHANGED obs
    \/ CleanupVisit("a1") /\ UNCHANGED obs
    \/ CleanupEnd /\ UNCHANGED obs

SpecSweep == Init /\ [][NextSweep]_vars


\* SpecLive: the ticket flow of one sender with the queue loop, the consumer
\* and the redeemer each taking the steps they can take.
LiveQueueTicket(a) ==
    \E fv \in FaceValues :
        /\ nonce < MaxTickets
        /\ QueueTicket(a, fv)
        /\ Observe("QueueTicket", a, 0, 0, ErrNil, NoVal)

LiveSubFloat(a) ==
    \E x \in Amounts :
        /\ Pending(a) + x <= MaxPending
        /\ SubFloat(a, x)
        /\ Observe("SubFloat", a, 0, 0, ErrNil, NoVal)

LiveAddFloat(a) ==
    \E y \in Amounts :
        \E r \in AddFloatOutcomes(a, y) :
            /\ AddFloat(a, y, r)
            /\ Observe("AddFloat", a, 0, 0, r.err, NoVal)

NextLive ==
    \/ LiveQueueTicket("a1")
    \/ LiveSubFloat("a1")
    \/ LiveAddFloat("a1")
    \/ FlowTakeSignal("a1")
    \/ FlowReceive("a1")
    \/ FlowAwait("a1")
    \/ FlowRedeem("a1")

SpecLive ==
    /\ Init
    /\ [][NextLive]_vars
    /\ WF_vars(FlowTakeSignal("a1"))
    /\ WF_vars(FlowReceive("a1"))
    /\ WF_vars(FlowAwait("a1"))
    /\ WF_vars(FlowRedeem("a1"))

\* SpecOrder: two senders with one queued ticket each; AddFloat on a1 is
\* called only right after an AddFloat on a2 has returned nil with a max
\* float that covers any face value.
OrderQueueTicket(a) ==
    \E fv \in FaceValues :
        /\ a \notin DOMAIN senders
        /\ QueueTicket(a, fv)
        /\ Observe("QueueTicket", a, 0, 0, ErrNil, NoVal)

OrderSubFloat(a) ==
    \E x \in Amounts :
        /\ a \in DOMAIN senders
        /\ Pending(a) + x <= MaxAmount
        /\ SubFloat(a, x)
        /\ Observe("SubFloat", a, 0, 0, ErrNil, NoVal)

OrderAddFloat(a) ==
    \E y \in Amounts :
        \E r \in AddFloatOutcomes(a, y) :
            /\ DOMAIN senders = Addrs
            /\ AddFloat(a, y, r)
            /\ Observe("AddFloat", a, 0, 0, r.err, NoVal)

\* The last call was an AddFloat on a that returned nil and signalled a max
\* float of at least MaxFace.
ReturnedCovering(a) ==
    /\ ret = Ret("AddFloat", a, ErrNil, NoVal)
    /\ Share(a) - Pending(a) >= MaxFace

NextOrder ==
    \/ \E a \in Addrs :
        \/ OrderQueueTicket(a)
        \/ OrderSubFloat(a)
        \/ FlowTakeSignal(a)
        \/ FlowReceive(a)
        \/ FlowAwait(a)
        \/ FlowRedeem(a)
    \/ OrderAddFloat("a2")
    \/ ReturnedCovering("a2") /\ OrderAddFloat("a1")

SpecOrder == Init /\ [][NextOrder]_vars


\* SpecCache: two senders under MaxFloat, the clock, changes of the Reserve
\* on chain (after the sender was first looked up) and the cleanup sweep.
CacheMaxFloat(a) ==
    \E r \in MaxFloatOutcomes(a) :
        /\ MaxFloat(a, r)
        /\ Observe("MaxFloat", a, 0, 0, r.err, r.val)

CacheSetReserve(a) ==
    \E r \in Reserves :
        /\ a \in DOMAIN senders \/ a \in cleared
        /\ SetReserve(a, r)
        /\ UNCHANGED obs

CacheCleanupVisit(a) ==
    /\ CleanupVisit(a)
    /\ swept' = [swept EXCEPT ![a] = IF a \in DOMAIN senders' THEN "kept" ELSE "evicted"]
    /\ UNCHANGED <<ret, sumSub, sumAdd, guardFailed, relSum, readers, orphans, http>>

NextCache ==
    \/ \E a \in Addrs :
        \/ CacheMaxFloat(a)
        \/ CacheSetReserve(a)
        \/ CacheCleanupVisit(a)
    \/ Start /\ UNCHANGED obs
    \/ AdvanceTime /\ UNCHANGED obs
    \/ CleanupBegin /\ UNCHANGED obs
    \/ CleanupEnd /\ UNCHANGED obs

SpecCache == Init /\ [][NextCache]_vars

\* SpecStop: shutdown.  One sender under the four public calls (a queued
\* ticket, AddFloat calls that signal its queue), the queue loop, the consumer, the cleanup worker,
\* the clock and Stop; the redeemer receives when it pleases.  The selects of
\* the consumer and of the cleanup worker take a ready quit case sooner or
\* later, and a sweep that can go on does.
StopQueueTicket(a) ==
    \E fv \in FaceValues :
        /\ nonce < MaxSweepTickets
        /\ QueueTicket(a, fv)
        /\ UNCHANGED obs

StopAddFloat(a) ==
    \E y \in Amounts :
        \E r \in AddFloatOutcomes(a, y) :
            /\ AddFloat(a, y, r)
            /\ UNCHANGED obs

StopSubFloat(a) ==
    \E x \in Amounts :
        /\ Pending(a) + x <= MaxAmount
        /\ SubFloat(a, x)
        /\ UNCHANGED obs

StopMaxFloat(a) ==
    \E r \in MaxFloatOutcomes(a) :
        /\ MaxFloat(a, r)
        /\ UNCHANGED obs

StopConsumerQuit(a) == ConsumerQuit(a) /\ UNCHANGED obs

StopCleanupQuit == CleanupQuit /\ UNCHANGED obs

StopCleanupVisit(a) == CleanupVisit(a) /\ UNCHANGED obs

StopCleanupEnd == CleanupEnd /\ UNCHANGED obs

NextStop ==
    \/ StopQueueTicket("a1")
    \/ StopSubFloat("a1")
    \/ StopAddFloat("a1")
    \/ StopMaxFloat("a1")
    \/ FlowTakeSignal("a1")
    \/ FlowReceive("a1")
    \/ FlowAwait("a1")
    \/ FlowRedeem("a1")
    \/ StopConsumerQuit("a1")
    \/ StopCleanupQuit
    \/ StopCleanupVisit("a1")
    \/ StopCleanupEnd
    \/ Start /\ UNCHANGED obs
    \/ Stop /\ UNCHANGED obs
    \/ AdvanceTime /\ UNCHANGED obs
    \/ CleanupBegin /\ UNCHANGED obs

SpecStop ==
    /\ Init
    /\ [][NextStop]_vars
    /\ SF_vars(StopConsumerQuit("a1"))
    /\ SF_vars(StopCleanupQuit)
    /\ WF_vars(StopCleanupVisit("a1"))
    /\ WF_vars(StopCleanupEnd)

\* SpecStopDrained: SpecStop with a redeemer that goes on receiving whatever
\* a consumer offers on sm.redeemable.
SpecStopDrained == SpecStop /\ WF_vars(FlowRedeem("a1"))

\* SpecLock: the monitor lock.  Two threads call MaxFloat step by step on
\* two senders; SubFloat and the cleanup sweep take the write lock, which
\* they get when no reader holds the lock.
LockSubFloat(a) ==
    \E x \in Amounts :
        /\ NoReaders
        /\ Pending(a) + x <= MaxAmount
        /\ SubFloat(a, x)
        /\ Observe("SubFloat", a, 0, 0, ErrNil, NoVal)

LockCleanupBegin == NoReaders /\ CleanupBegin /\ UNCHANGED obs

NextLock ==
    \/ \E t \in Threads :
        \/ \E a \in Addrs : MaxFloatRLock(t, a)
        \/ \E fatal \in BOOLEAN : MaxFloatEnsureCache(t, fatal)
        \/ \E fatal \in BOOLEAN : MaxFloatCache(t, fatal)
        \/ /\ readers[t].pc = "maxFloat"
           /\ \E r \in maxFloat(senders, readers[t].addr) : MaxFloatReturn(t, r)
    \/ \E a \in Addrs :
        \/ LockSubFloat(a)
        \/ CleanupVisit(a) /\ UNCHANGED obs
    \/ Start /\ UNCHANGED obs
    \/ AdvanceTime /\ UNCHANGED obs
    \/ LockCleanupBegin
    \/ CleanupEnd /\ UNCHANGED obs

SpecLock == Init /\ [][NextLock]_vars

\* SpecPair: two senders side by side under the four public calls, the
\* clock and the cleanup sweep; the queues are filled and signalled, their
\* loops do not run, so every ticket carries the same face value.
PairQueueTicket(a) ==
    /\ nonce < MaxSweepTickets
    /\ QueueTicket(a, MaxFace)
    /\ UNCHANGED obs

PairSubFloat(a) ==
    \E x \in Amounts :
        /\ Pending(a) + x <= MaxAmount
        /\ SubFloat(a, x)
        /\ UNCHANGED obs

PairAddFloat(a) ==
    \E y \in Amounts :
        \E r \in AddFloatOutcomes(a, y) :
            /\ AddFloat(a, y, r)
            /\ UNCHANGED obs

PairMaxFloat(a) ==
    \E r \in MaxFloatOutcomes(a) :
        /\ MaxFloat(a, r)
        /\ UNCHANGED obs

PairCleanupVisit(a) == CleanupVisit(a) /\ UNCHANGED obs

NextPair ==
    \/ \E a \in Addrs :
        \/ PairQueueTicket(a)
        \/ PairSubFloat(a)
        \/ PairAddFloat(a)
        \/ PairMaxFloat(a)
        \/ PairCleanupVisit(a)
    \/ Start /\ UNCHANGED obs
    \/ AdvanceTime /\ UNCHANGED obs
    \/ CleanupBegin /\ UNCHANGED obs
    \/ CleanupEnd /\ UNCHANGED obs

SpecPair == Init /\ [][NextPair]_vars

\* ------------------------------------------------------- HTTP handlers
\* SpecHttp: the server takes a request and serves it to the end; the
\* request goes to a transaction handler, directly or through
\* mustHaveFormParams.  The sender monitor is not involved.
notHttp == <<monitor, env, ret, sumSub, sumAdd, guardFailed, relSum, swept, readers, orphans>>

IsDigit(c) == c = "7"

RECURSIVE DecimalValue(_)
DecimalValue(digits) ==
    IF digits = <<>> THEN 0
    ELSE 10 * DecimalValue(SubSeq(digits, 1, Len(digits) - 1)) + 7

\* common.ParseBigInt(s): a decimal integer with an optional minus sign, or
\* an error.
ParseBigInt(s) ==
    LET neg == s # <<>> /\ s[1] = "-"
        digits == IF neg THEN Tail(s) ELSE s
    IN  IF digits = <<>> \/ \E i \in 1 .. Len(digits) : ~IsDigit(digits[i])
        THEN [err |-> TRUE, val |-> 0]
        ELSE [err |-> FALSE,
              val |-> IF neg THEN 0 - DecimalValue(digits) ELSE DecimalValue(digits)]

\* The form values a handler parses, in the order it parses them.
AmountParams(h) ==
    CASE h = "fundDepositAndReserve" -> <<"depositAmount", "reserveAmount">>
      [] h = "fundDeposit" -> <<"amount">>
      [] OTHER -> <<>>

\* The first of the parameters ps among the positions idx, or "none".
FirstParam(ps, idx) ==
    IF idx = {} THEN "none"
    ELSE ps[CHOOSE i \in idx : \A j \in idx : i <= j]

\* respondWithError / WriteHeader and Write: the response is written and the
\* handler returns.
Respond(code, body) == [http EXCEPT !.pc = "done", !.status = code, !.body = body]

\* A request arrives.
HttpReceive ==
    /\ http.pc = "idle"
    /\ \E h \in Handlers, cl \in BOOLEAN, f \in Forms, wrapped \in BOOLEAN :
         \E bad \in (IF wrapped THEN BOOLEAN ELSE {FALSE}) :
         \E ps \in (IF wrapped THEN ParamLists ELSE {<<>>}) :
            http' = [NoRequest EXCEPT
                        !.pc = IF wrapped THEN "mustHaveFormParams" ELSE "handler",
                        !.handler = h, !.client = cl, !.form = f,
                        !.badForm = bad, !.params = ps, !.invoked = ~wrapped]
    /\ UNCHANGED notHttp

\* mustHaveFormParams that goes on to the handler after answering 400.
mustHaveFormParamsFallsThrough ==
    /\ http.pc = "mustHaveFormParams"
    /\ LET missing == {i \in 1 .. Len(http.params) : http.form[http.params[i]] = <<>>}
           first == FirstParam(http.params, missing)
       IN  http' = IF http.badForm
                   THEN Respond(500, <<"parse form error">>)
                   ELSE IF first # "none"
                   THEN [http EXCEPT !.pc = "handler", !.invoked = TRUE, !.status = 400,
                                     !.body = <<"missing form param", first>>]
                   ELSE [http EXCEPT !.pc = "handler", !.invoked = TRUE]
    /\ UNCHANGED notHttp

mustHaveFormParams ==
    /\ http.pc = "mustHaveFormParams"
    /\ LET missing == {i \in 1 .. Len(http.params) : http.form[http.params[i]] = <<>>}
           first == FirstParam(http.params, missing)
       IN  http' = IF http.badForm
                   THEN Respond(500, <<"parse form error">>)
                   ELSE IF first # "none"
                   THEN Respond(400, <<"missing form param", first>>)
                   ELSE [http EXCEPT !.pc = "handler", !.invoked = TRUE]
    /\ UNCHANGED notHttp

\* The handler up to the client call: the nil test and the amounts.
TxHandlerParse(h) ==
    /\ http.pc = "handler"
    /\ http.handler = h
    /\ LET invalid == {i \in 1 .. Len(AmountParams(h)) :
                          ParseBigInt(http.form[AmountParams(h)[i]]).err}
           first == FirstParam(AmountParams(h), invalid)
       IN  http' = IF ~http.client
                   THEN Respond(500, <<"missing ETH client">>)
                   ELSE IF first # "none"
                   THEN Respond(400, <<"invalid", first>>)
                   ELSE [http EXCEPT !.pc = "submit"]
    /\ UNCHANGED notHttp

\* A submission whose error is not looked at.
TxHandlerSubmitIgnoresErr(h, err) ==
    /\ http.pc = "submit"
    /\ http.handler = h
    /\ LET args == [i \in 1 .. Len(AmountParams(h)) |->
                       ParseBigInt(http.form[AmountParams(h)[i]]).val]
           called == [http EXCEPT !.calls = Append(@, [name |-> h, args |-> args, err |-> err])]
       IN  http' = [called EXCEPT !.pc = "checkTx"]
    /\ UNCHANGED notHttp

\* tx, err := client.<call>(amounts): the transaction is submitted.
TxHandlerSubmit(h, err) ==
    /\ http.pc = "submit"
    /\ http.handler = h
    /\ LET args == [i \in 1 .. Len(AmountParams(h)) |->
                       ParseBigInt(http.form[AmountParams(h)[i]]).val]
           called == [http EXCEPT !.calls = Append(@, [name |-> h, args |-> args, err |-> err])]
       IN  http' = IF err
                   THEN [called EXCEPT !.pc = "done", !.status = 500,
                                       !.body = <<"could not execute", h>>]
                   ELSE [called EXCEPT !.pc = "checkTx"]
    /\ UNCHANGED notHttp

\* err = client.CheckTx(tx), then the success response.
TxHandlerCheckTx(h, err) ==
    /\ http.pc = "checkTx"
    /\ http.handler = h
    /\ LET called == [http EXCEPT !.calls =
                         Append(@, [name |-> "CheckTx", args |-> <<>>, err |-> err])]
       IN  http' = IF err
                   THEN [called EXCEPT !.pc = "done", !.status = 500,
                                       !.body = <<"could not execute", h>>]
                   ELSE [called EXCEPT !.pc = "done", !.status = 200,
                                       !.body = <<h, "success">>]
    /\ UNCHANGED notHttp

TxHandler(h) ==
    \/ TxHandlerParse(h)
    \/ \E err \in BOOLEAN : TxHandlerSubmit(h, err)
    \/ \E err \in BOOLEAN : TxHandlerCheckTx(h, err)

fundDepositAndReserveHandler == TxHandler("fundDepositAndReserve")
fundDepositHandler == TxHandler("fundDeposit")
unlockHandler == TxHandler("unlock")
cancelUnlockHandler == TxHandler("cancelUnlock")
withdrawHandler == TxHandler("withdraw")

NextHttp ==
    \/ HttpReceive
    \/ mustHaveFormParams
    \/ fundDepositAndReserveHandler
    \/ fundDepositHandler
    \/ unlockHandler
    \/ cancelUnlockHandler
    \/ withdrawHandler

SpecHttp == Init /\ [][NextHttp]_vars

\* ------------------------------------------------------- properties
\* C1, as stated: after SubFloat calls of total sumSub and AddFloat calls of
\* total sumAdd <= sumSub on one record, in any interleaving, a MaxFloat that
\* answers returns the share less (sumSub - sumAdd).
C1_AnyInterleaving ==
    [][\A a \in Addrs :
         (ret'.op = "MaxFloat" /\ CallMaxFloat(a) /\ ret'.err = ErrNil /\ sumAdd'[a] <= sumSub'[a])
         => ret'.val = <<Share(a) - (sumSub'[a] - sumAdd'[a])>>]_vars

\* C1, amended: the same when no AddFloat of the interleaving failed the
\* pendingAmount guard.
C1_FloatAlgebra ==
    [][\A a \in Addrs :
         (ret'.op = "MaxFloat" /\ CallMaxFloat(a) /\ ret'.err = ErrNil /\ ~guardFailed'[a])
         => ret'.val = <<Share(a) - (sumSub'[a] - sumAdd'[a])>>]_vars

C1_Witness ==
    /\ ret.op = "MaxFloat" /\ ret.err = ErrNil
    /\ ~guardFailed[ret.addr]
    /\ sumAdd[ret.addr] >= 2
    /\ sumSub[ret.addr] > sumAdd[ret.addr]

\* C2: with both reads answering and a pool size other than 0, MaxFloat
\* returns floor(Reserve / poolSize) - claimed - pendingAmount, a negative
\* value included.
C2_MaxFloatValue ==
    [][\A a \in Addrs :
         (ret'.op = "MaxFloat" /\ CallMaxFloat(a) /\ smgrErr = ErrNil /\ poolSize # 0)
         => ret' = Ret("MaxFloat", a, ErrNil,
                       <<(Info(a) \div poolSize) - claimed[a] - Pending(a)>>)]_vars

C2_Witness ==
    /\ ret.op = "MaxFloat" /\ ret.err = ErrNil
    /\ smgrErr = ErrNil /\ poolSize # 0
    /\ Info(ret.addr) % poolSize # 0
    /\ claimed[ret.addr] > 0
    /\ ret.val[1] < 0

\* C3: no record's pendingAmount is ever negative.
C3_NonNegativePending ==
    \A a \in DOMAIN senders : senders[a].pendingAmount >= 0

\* A record recreated after an eviction has just refused an AddFloat.
C3_Witness ==
    /\ ret.op = "AddFloat" /\ ret.err = ErrInsufficient
    /\ ret.addr \in cleared
    /\ ret.addr \in DOMAIN senders
    /\ senders[ret.addr].pendingAmount = 0

\* C4: AddFloat of more than the pendingAmount returns the insufficient
\* pendingAmount error, keeps pendingAmount, leaves the error count alone
\* and sends no signal.
C4_AddFloatGuard ==
    [][\A a \in Addrs, y \in CallAmounts :
         (ret'.op = "AddFloat" /\ y > Pending(a) /\ CallAddFloatWith(a, y))
         => /\ ret'.err = ErrInsufficient
            /\ Pending(a)' = Pending(a)
            /\ errCount' = errCount
            /\ Sig(a)' = Sig(a)]_vars

C4_Witness ==
    /\ ret.op = "AddFloat" /\ ret.err = ErrInsufficient
    /\ errCount[ret.addr] = MaxErrCount
    /\ Pending(ret.addr) > 0
    /\ Sig(ret.addr) # NoVal

\* C5: an AddFloat that passes the guard while GetSenderInfo fails returns
\* that error, keeps pendingAmount decremented and sends no signal.
C5_AddFloatReadError ==
    [][\A a \in Addrs, y \in CallAmounts :
         (ret'.op = "AddFloat" /\ y <= Pending(a) /\ smgrErr = ErrGetSenderInfo
            /\ CallAddFloatWith(a, y))
         => /\ ret'.err = ErrGetSenderInfo
            /\ Pending(a)' = Pending(a) - y
            /\ Sig(a)' = Sig(a)]_vars

C5_Witness ==
    /\ ret.op = "AddFloat" /\ ret.err = ErrGetSenderInfo
    /\ ~guardFailed[ret.addr]
    /\ sumAdd[ret.addr] > 0
    /\ Pending(ret.addr) = sumSub[ret.addr] - sumAdd[ret.addr]
    /\ Pending(ret.addr) > 0

\* C6: after every SubFloat, and after every AddFloat that passes the guard,
\* the sender's error count is cleared.
C6_ErrCountReset ==
    [][\A a \in Addrs :
         (\/ ret'.op = "SubFloat" /\ CallSubFloat(a)
          \/ ret'.op = "AddFloat" /\ \E y \in CallAmounts : y <= Pending(a) /\ CallAddFloatWith(a, y))
         => errCount'[a] = 0]_vars

C6_Witness ==
    /\ ret.op = "AddFloat" /\ ret.err = ErrGetSenderInfo
    /\ sumAdd[ret.addr] > 0
    /\ errCount[ret.addr] = 0
\* C7: the tickets of one sender leave sm.redeemable in the order of their
\* QueueTicket calls (the nonces count the calls).
C7_PerSenderFIFO ==
    \A i, j \in 1 .. Len(redeemable) :
        (i < j /\ redeemable[i].sender = redeemable[j].sender)
        => redeemable[i].nonce < redeemable[j].nonce

C7_Witness ==
    /\ Len(redeemable) = 2
    /\ redeemable[1].sender = redeemable[2].sender
    /\ \E b \in DOMAIN senders :
         /\ b # redeemable[1].sender
         /\ senders[b].queue.loop = "proc"

\* C8: a queue emits a ticket only while it processes a signal, and only
\* when the signalled value less the face values already emitted for that
\* signal covers the ticket's face value.
C8_ReleaseThreshold ==
    [][\A a \in Addrs :
         FlowReceive(a)
         => /\ senders[a].queue.loop = "proc"
            /\ Head(senders[a].queue.items).faceValue
                 <= senders[a].queue.mf - relSum[a]]_vars

C8_Witness ==
    /\ "a1" \in DOMAIN senders
    /\ senders["a1"].queue.loop = "proc"
    /\ relSum["a1"] >= 1
    /\ senders["a1"].queue.items # <<>>
    /\ senders["a1"].queue.mf - relSum["a1"] = 0

\* C9: no ticket is emitted for a signal below 0, and an AddFloat that
\* leaves the max float (share - pendingAmount) below 0 signals that
\* negative value.
C9_NegativeReleasesNothing ==
    [][\A a \in Addrs :
         /\ FlowReceive(a) => senders[a].queue.mf >= 0
         /\ \A y \in Amounts :
              (/\ y <= Pending(a)
               /\ Share(a) - (Pending(a) - y) < 0
               /\ FlowAddFloatWith(a, y))
              => Sig(a)' = <<Share(a) - (Pending(a) - y)>>]_vars

C9_Witness ==
    /\ "a1" \in DOMAIN senders
    /\ senders["a1"].queue.loop = "proc"
    /\ senders["a1"].queue.mf < 0
    /\ senders["a1"].queue.items # <<>>
    /\ Head(senders["a1"].queue.items).faceValue = 0

\* Ticket n is in a's queue, delivered, at the head of a's queue.
Queued(a, n) ==
    /\ a \in DOMAIN senders
    /\ \E i \in 1 .. Len(senders[a].queue.items) : senders[a].queue.items[i].nonce = n

Delivered(n) == \E i \in 1 .. Len(redeemable) : redeemable[i].nonce = n

AtHead(a, n) ==
    /\ a \in DOMAIN senders
    /\ senders[a].queue.items # <<>>
    /\ Head(senders[a].queue.items).nonce = n

FaceOf(a, n) ==
    LET i == CHOOSE k \in 1 .. Len(senders[a].queue.items) :
                 senders[a].queue.items[k].nonce = n
    IN  senders[a].queue.items[i].faceValue

\* The last call, an AddFloat on a, succeeded and its signal, still in the
\* slot, covers the queued ticket n.
Covered(a, n) ==
    /\ ret = Ret("AddFloat", a, ErrNil, NoVal)
    /\ Queued(a, n)
    /\ Sig(a) # NoVal
    /\ Sig(a)[1] >= FaceOf(a, n)

\* C10, as stated: a queued ticket that an AddFloat's max float covers is
\* eventually delivered.
C10_AnyQueuedTicket ==
    \A n \in 0 .. MaxTickets - 1 : Covered("a1", n) ~> Delivered(n)

\* C10, amended: the ticket at the head of the queue that an AddFloat's max
\* float covers is eventually delivered, unless a later AddFloat puts a
\* signal below its face value into the slot first.
C10_HeadTicketDelivered ==
    \A n \in 0 .. MaxTickets - 1 :
        (Covered("a1", n) /\ AtHead("a1", n))
        ~> (\/ Delivered(n)
            \/ (AtHead("a1", n) /\ Sig("a1") # NoVal /\ Sig("a1")[1] < FaceOf("a1", n)))

C10_Witness ==
    /\ Len(redeemable) = 2
    /\ redeemable[1].faceValue + redeemable[2].faceValue = 1
    /\ ret = Ret("AddFloat", "a1", ErrNil, NoVal)


\* C11: with one queued, covered ticket per sender and AddFloat(a2, ..)
\* returned before AddFloat(a1, ..) is called, the ticket of a2 is
\* delivered before the ticket of a1.
C11_CrossSenderOrder ==
    \A i \in 1 .. Len(redeemable) :
        redeemable[i].sender = "a1"
        => \E j \in 1 .. i - 1 : redeemable[j].sender = "a2"

\* C12: a sweep removes a record exactly when unixNow() - lastAccess > ttl;
\* the removal goes through the consumer's done channel, deletes the map
\* entry and clears the sender manager's cache for the address; every other
\* record is left as it is.
C12_TTLCleanup ==
    [][\A a \in Addrs :
         CacheCleanupVisit(a)
         => /\ a \notin DOMAIN senders' <=> now - senders[a].lastAccess > TTL
            /\ a \notin DOMAIN senders'
                 => /\ ConsumerAtSelect(senders[a].consumer)
                    /\ a \in cleared'
                    /\ info'[a] = NoVal
            /\ a \in DOMAIN senders' => cleared' = cleared /\ info' = info
            /\ \A b \in DOMAIN senders \ {a} :
                 b \in DOMAIN senders' /\ senders'[b] = senders[b]]_vars

\* A sweep has evicted a1 and kept a2, idle for exactly ttl.
C12_Witness ==
    /\ cleaner = "sweep" /\ toVisit = {}
    /\ swept["a1"] = "evicted" /\ "a1" \notin DOMAIN senders
    /\ swept["a2"] = "kept" /\ "a2" \in DOMAIN senders
    /\ now - senders["a2"].lastAccess = TTL

\* C14: the MaxFloat that follows an eviction answers with the allocation
\* of the Reserve then on chain.
C14_RefetchAfterEviction ==
    [][\A a \in Addrs :
         (/\ a \in cleared
          /\ a \notin DOMAIN senders
          /\ CacheMaxFloat(a))
         => ret' = Ret("MaxFloat", a, ErrNil, <<(reserve[a] \div poolSize) - claimed[a]>>)]_vars

\* a1 was evicted and looked up again after its Reserve went from 5 to 3.
C14_Witness ==
    /\ ret = Ret("MaxFloat", "a1", ErrNil, <<(reserve["a1"] \div poolSize) - claimed["a1"]>>)
    /\ swept["a1"] = "evicted"
    /\ info["a1"] = <<3>>

C13_TTLExclusion ==
    [][\A a \in DOMAIN senders \cup DOMAIN senders' :
         /\ (\/ ret'.op = "QueueTicket" /\ SweepQueueTicket(a)
             \/ ret'.op = "SubFloat" /\ SweepSubFloat(a)
             \/ ret'.op = "AddFloat" /\ SweepAddFloat(a)
             \/ ret'.op = "MaxFloat" /\ SweepMaxFloat(a))
              => senders'[a].lastAccess = now
         /\ (CleanupVisit(a) /\ now - senders[a].lastAccess <= TTL)
              => a \in DOMAIN senders' /\ senders'[a] = senders[a]]_vars

\* A sweep has passed over a1, stamped one ttl ago by an AddFloat that
\* failed the guard; its pendingAmount and queued ticket are still there.
C13_Witness ==
    /\ cleaner = "sweep" /\ toVisit = {}
    /\ ret = Ret("AddFloat", "a1", ErrInsufficient, NoVal)
    /\ "a1" \in DOMAIN senders
    /\ now - senders["a1"].lastAccess = TTL
    /\ senders["a1"].pendingAmount > 0
    /\ senders["a1"].queue.items # <<>>

\* Every consumer has returned and the cleanup worker, if started, too.
Terminated ==
    /\ \A a \in DOMAIN senders : ~senders[a].consumer.alive
    /\ cleaner \in {"none", "exited"}

\* C16: after Stop, the consumers and the cleanup worker eventually
\* terminate (a process that died in a panic has nothing left to run).
C16_ShutdownLiveness == quit ~> (Terminated \/ panicked)

\* C17: a second Stop completes normally and leaves the monitor stopped.
C17_StopIdempotent ==
    [][(quit /\ Stop) => (~panicked' /\ quit')]_vars

\* C18: once Stop has returned, nothing more is delivered on Redeemable().
C18_NoSendAfterStop ==
    [][quit => redeemable' = redeemable]_vars

\* C19: with a pool size of 0 the allocation is 0 and MaxFloat returns
\* -pendingAmount, whatever the Reserve and the claimed reserve are.
C19_PoolSizeZero ==
    [][\A a \in Addrs :
         (/\ ret'.op = "MaxFloat"
          /\ poolSize = 0
          /\ smgrErr # ErrGetSenderInfo
          /\ CallMaxFloat(a))
         => /\ ret' = Ret("MaxFloat", a, ErrNil, <<0 - Pending(a)>>)
            /\ ~panicked']_vars

C19_Witness ==
    /\ poolSize = 0
    /\ ret.op = "MaxFloat" /\ ret.err = ErrNil
    /\ Pending(ret.addr) > 0
    /\ claimed[ret.addr] > 0
    /\ ret.val = <<0 - Pending(ret.addr)>>

\* C20: while GetSenderInfo fails, reserveAlloc answers with that error and
\* no value, MaxFloat returns it, and so does an AddFloat that gets as far
\* as its max float.
C20_GetSenderInfoError ==
    [][\A a \in Addrs :
         smgrErr = ErrGetSenderInfo
         => /\ reserveAlloc(a) = {Outcome(ErrGetSenderInfo, NoVal, FALSE)}
            /\ (ret'.op = "MaxFloat" /\ CallMaxFloat(a))
                 => ret' = Ret("MaxFloat", a, ErrGetSenderInfo, NoVal)
            /\ \A y \in CallAmounts :
                 (ret'.op = "AddFloat" /\ y <= Pending(a) /\ CallAddFloatWith(a, y))
                 => ret' = Ret("AddFloat", a, ErrGetSenderInfo, NoVal)]_vars

C20_Witness ==
    /\ smgrErr = ErrGetSenderInfo
    /\ ret = Ret("MaxFloat", "a1", ErrGetSenderInfo, NoVal)
    /\ Pending("a1") > 0

\* C21: while ClaimedReserve fails and GetSenderInfo answers, MaxFloat
\* returns the error of ClaimedReserve and no value, and so does an AddFloat
\* that gets as far as its max float.
C21_ClaimedReserveError ==
    [][\A a \in Addrs :
         smgrErr = ErrClaimedReserve
         => /\ (ret'.op = "MaxFloat" /\ CallMaxFloat(a))
                 => ret' = Ret("MaxFloat", a, ErrClaimedReserve, NoVal)
            /\ \A y \in CallAmounts :
                 (ret'.op = "AddFloat" /\ y <= Pending(a) /\ CallAddFloatWith(a, y))
                 => ret' = Ret("AddFloat", a, ErrClaimedReserve, NoVal)]_vars

\* C22, as stated: no record's pendingAmount exceeds the reserve allocation
\* of its sender.
C22_CreditInvariant ==
    \A a \in DOMAIN senders : senders[a].pendingAmount <= Share(a)

\* C22, amended: SubFloat(a, x) adds x to pendingAmount whatever the
\* allocation is, and pendingAmount stays at or above 0.
C22_PendingUnbounded ==
    [][\A a \in Addrs :
         (ret'.op = "SubFloat" /\ CallSubFloat(a))
         => /\ Pending(a)' = Pending(a) + (sumSub'[a] - SumSub(a))
            /\ Pending(a)' >= 0]_vars

\* A SubFloat has taken pendingAmount beyond the allocation; the readers
\* answer.
C22_Witness ==
    /\ ret.op = "SubFloat"
    /\ smgrErr = ErrNil /\ poolSize # 0
    /\ Share(ret.addr) > 0
    /\ sumSub[ret.addr] - sumAdd[ret.addr] > Share(ret.addr)
    /\ Pending(ret.addr) = sumSub[ret.addr] - sumAdd[ret.addr]

\* C23: a call that is about to run ensureCache (insert into the sender map,
\* write lastAccess) holds the monitor lock alone: no other call is inside a
\* locked section at that moment.
C23_LockDiscipline ==
    \A t \in Threads :
        readers[t].pc = "ensureCache"
        => \A u \in Threads \ {t} : readers[u] = Idle

\* C24: once Stop has been called, the monitor lock is free again and again
\* (a call made after Stop gets the lock and returns), unless the process
\* has died in a panic.
C24_CallsReturnAfterStop == quit ~> (Callable \/ panicked)

\* C25: whenever the sweep is about to send on the done channel of an
\* expired record, the consumer of that record is at its select.
C25_HandshakeNeverBlocks ==
    \A a \in toVisit :
        (cleaner = "sweep" /\ Expired(a)) => ConsumerAtSelect(senders[a].consumer)

\* C26: while a queue processes a signal mf, every ticket it emits is the
\* head of the queue, the face values emitted for the signal never add up to
\* more than mf, and the processing ends only when the queue is empty or its
\* head exceeds what is left of mf; a head of face value 0 is covered
\* whenever what is left is at least 0.
C26_ReleaseRule ==
    [][\A a \in Addrs :
         /\ FlowReceive(a)
              => /\ senders'[a].queue.items = Tail(senders[a].queue.items)
                 /\ senders'[a].consumer.sending = {Head(senders[a].queue.items)}
                 /\ relSum'[a] <= senders[a].queue.mf
                 /\ senders'[a].queue.mf = senders[a].queue.mf
         /\ FlowAwait(a)
              => \/ senders[a].queue.items = <<>>
                 \/ Head(senders[a].queue.items).faceValue
                      > senders[a].queue.mf - relSum[a]
         /\ (/\ a \in DOMAIN senders
             /\ senders[a].queue.loop = "proc"
             /\ senders[a].queue.items # <<>>
             /\ Head(senders[a].queue.items).faceValue = 0
             /\ senders[a].queue.mf - relSum[a] >= 0)
              => Releasable(senders[a].queue)]_vars

\* For a signal of 1 the queue of a1 has emitted a ticket of face value 1
\* and then, with nothing left of the signal, the ticket of face value 0
\* queued behind it.
C26_Witness ==
    /\ "a1" \in DOMAIN senders
    /\ senders["a1"].queue.loop = "proc"
    /\ senders["a1"].queue.mf = 1
    /\ relSum["a1"] = 1
    /\ senders["a1"].queue.items = <<>>
    /\ \E t \in senders["a1"].consumer.sending :
         /\ t.faceValue = 0
         /\ \E i \in 1 .. Len(redeemable) :
              /\ redeemable[i].sender = "a1"
              /\ redeemable[i].faceValue = 1
              /\ redeemable[i].nonce < t.nonce

\* The queue loop of a: "none" when a has no record.
Loop(a) == IF a \in DOMAIN senders THEN senders[a].queue.loop ELSE "none"

QueueLen(a) == IF a \in DOMAIN senders THEN Len(senders[a].queue.items) ELSE 0

\* C27, as stated: SubFloat, MaxFloat, QueueTicket and an AddFloat that
\* fails leave the signal slot of the queue as it is, and a ticket is not
\* emitted while the QueueTicket that queued it is still the last call made
\* (no AddFloat has succeeded since).
C27_WaitsForLaterAddFloat ==
    [][\A a \in DOMAIN senders \cup DOMAIN senders' :
         /\ (\/ ret'.op = "QueueTicket" /\ SweepQueueTicket(a)
             \/ ret'.op = "SubFloat" /\ SweepSubFloat(a)
             \/ ret'.op = "MaxFloat" /\ SweepMaxFloat(a)
             \/ ret'.op = "AddFloat" /\ ret'.err # ErrNil /\ SweepAddFloat(a))
              => Sig(a)' = Sig(a)
         /\ (ret = Ret("QueueTicket", a, ErrNil, NoVal) /\ ConsumerReceive(a))
              => Head(senders[a].queue.items).nonce # nonce - 1]_vars

\* C27, amended: SubFloat, MaxFloat, QueueTicket and an AddFloat that fails
\* leave the signal slot as it is; a value comes into the slot only by an
\* AddFloat on that sender that returns nil; the queue loop starts to
\* process only by taking a value out of the slot; and a queue gets shorter
\* only while its loop is processing.
C27_OnlyAddFloatSignals ==
    [][\A a \in DOMAIN senders \cup DOMAIN senders' :
         /\ (\/ ret'.op = "QueueTicket" /\ SweepQueueTicket(a)
             \/ ret'.op = "SubFloat" /\ SweepSubFloat(a)
             \/ ret'.op = "MaxFloat" /\ SweepMaxFloat(a)
             \/ ret'.op = "AddFloat" /\ ret'.err # ErrNil /\ SweepAddFloat(a))
              => Sig(a)' = Sig(a)
         /\ (Sig(a)' # Sig(a) /\ Sig(a)' # NoVal)
              => /\ ret' = Ret("AddFloat", a, ErrNil, NoVal)
                 /\ SweepAddFloat(a)
         /\ (Loop(a)' = "proc" /\ Loop(a) # "proc")
              => /\ Sig(a) # NoVal
                 /\ senders'[a].queue.mf = Sig(a)[1]
         /\ (a \in DOMAIN senders /\ a \in DOMAIN senders' /\ QueueLen(a)' < QueueLen(a))
              => Loop(a) = "proc"]_vars

\* The ticket of a1 has been emitted while the QueueTicket that queued it is
\* the last call made: the signal of an earlier AddFloat served it.
C27_Witness ==
    /\ ret = Ret("QueueTicket", "a1", ErrNil, NoVal)
    /\ "a1" \in DOMAIN senders
    /\ senders["a1"].queue.items = <<>>
    /\ \/ redeemable # <<>>
       \/ senders["a1"].consumer.sending # {}

\* C28: there is no record at construction; QueueTicket, SubFloat, AddFloat
\* and MaxFloat on a leave a record for a; a record appears only by one of
\* these calls on its address and goes away only by the sweep evicting it;
\* Start and Stop leave the set of records as it is.
C28_RecordExistence ==
    /\ DOMAIN senders = {}
    /\ [][\A a \in Addrs :
            /\ (StopQueueTicket(a) \/ StopSubFloat(a) \/ StopAddFloat(a) \/ StopMaxFloat(a))
                 => a \in DOMAIN senders'
            /\ (a \notin DOMAIN senders /\ a \in DOMAIN senders')
                 => (StopQueueTicket(a) \/ StopSubFloat(a) \/ StopAddFloat(a) \/ StopMaxFloat(a))
            /\ (a \in DOMAIN senders /\ a \notin DOMAIN senders')
                 => (StopCleanupVisit(a) /\ Expired(a))
            /\ (Start \/ Stop) => DOMAIN senders' = DOMAIN senders]_vars

\* After Stop, a1 has a record again that a call created after a sweep had
\* evicted the previous one.
C28_Witness ==
    /\ quit /\ ~panicked
    /\ "a1" \in cleared
    /\ "a1" \in DOMAIN senders
    /\ senders["a1"].consumer.alive

\* C29: a queue that holds a ticket belongs to a record of the sender map
\* and is running (not stopped).
C29_QueuedTicketQueueRuns ==
    \A a \in DOMAIN senders :
        senders[a].queue.items # <<>> => ~senders[a].queue.stopped

\* C30: an AddFloat that returns nil leaves its max float in the signal
\* slot, whatever was there; a value in the slot is eventually the one the
\* queue loop processes, unless a different value takes its place first;
\* and a head ticket that the value under processing covers is eventually
\* delivered, whatever signals arrive in the meantime.
C30_SignalsApplied ==
    /\ [][(ret'.op = "AddFloat" /\ ret'.err = ErrNil /\ LiveAddFloat("a1"))
            => Sig("a1")' = <<Share("a1") - Pending("a1")'>>]_vars
    /\ \A v \in (0 - MaxPending) .. MaxPending :
         (Sig("a1") = <<v>>)
         ~> (\/ Loop("a1") = "proc" /\ senders["a1"].queue.mf = v
             \/ Sig("a1") # NoVal /\ Sig("a1") # <<v>>)
    /\ \A n \in 0 .. MaxTickets - 1 :
         (/\ AtHead("a1", n)
          /\ Loop("a1") = "proc"
          /\ senders["a1"].queue.run >= Head(senders["a1"].queue.items).faceValue)
         ~> Delivered(n)

\* While the loop processes a signal of 1 and a ticket has been delivered,
\* the AddFloat that just returned has put a new value, 0, into the slot.
C30_Witness ==
    /\ ret = Ret("AddFloat", "a1", ErrNil, NoVal)
    /\ Loop("a1") = "proc"
    /\ senders["a1"].queue.mf = 1
    /\ Sig("a1") = <<0>>
    /\ redeemable # <<>>

\* C31: once a queue is stopped it stays stopped, its contents stay as they
\* are and its consumer forwards nothing; a QueueTicket on it returns and
\* changes nothing in the queue, and a QueueTicket on a running queue
\* appends its ticket.
C31_StoppedQueue ==
    [][\A a \in DOMAIN senders :
         /\ senders[a].queue.stopped
              => /\ a \in DOMAIN senders'
                 /\ senders'[a].queue = senders[a].queue
                 /\ senders'[a].consumer = senders[a].consumer
                 /\ senders[a].consumer.sending = {}
                 /\ StopQueueTicket(a) => (~panicked' /\ nonce' = nonce + 1)
         /\ (~senders[a].queue.stopped /\ StopQueueTicket(a))
              => /\ Len(senders'[a].queue.items) = Len(senders[a].queue.items) + 1
                 /\ senders'[a].queue.items[Len(senders'[a].queue.items)].nonce = nonce]_vars

\* After Stop, and before any record could expire, the one ticket handed to
\* QueueTicket was dropped by the stopped queue of a1: it is in no queue,
\* with no consumer and not delivered.
C31_Witness ==
    /\ quit
    /\ "a1" \in DOMAIN senders
    /\ now = 0
    /\ senders["a1"].queue.stopped
    /\ nonce = 1
    /\ senders["a1"].queue.items = <<>>
    /\ senders["a1"].consumer.sending = {}
    /\ redeemable = <<>>
    /\ senders["a1"].queue.loop = "idle"
    /\ senders["a1"].queue.sig = NoVal

\* C32: with a pool size of 0 and ClaimedReserve failing, reserveAlloc
\* answers 0 with a nil error, and MaxFloat returns -pendingAmount with a
\* nil error.
C32_PoolZeroHidesClaimError ==
    [][\A a \in Addrs :
         (poolSize = 0 /\ smgrErr = ErrClaimedReserve)
         => /\ reserveAlloc(a) = {Outcome(ErrNil, <<0>>, FALSE)}
            /\ (ret'.op = "MaxFloat" /\ CallMaxFloat(a))
                 => /\ ret'.err = ErrNil
                    /\ ret'.val = <<0 - Pending(a)>>]_vars

C32_Witness ==
    /\ poolSize = 0
    /\ smgrErr = ErrClaimedReserve
    /\ ret.op = "MaxFloat" /\ ret.err = ErrNil
    /\ Pending(ret.addr) = 2
    /\ ret.val = <<0 - 2>>

\* ------------------------------------------------------- C33
\* C33: pendingAmount is an exact account.  A record starts at 0; SubFloat
\* adds its amount; an AddFloat that passes the guard subtracts its amount,
\* whether or not maxFloat answers afterwards; QueueTicket, MaxFloat, an
\* AddFloat that fails the guard and the cleanup visit of another sender
\* leave it as it is.
C33_ExactPending ==
    [][\A a \in DOMAIN senders \cup DOMAIN senders' :
          /\ (/\ cleaner # "sweep"
              /\ a \in DOMAIN senders
              /\ a \in DOMAIN senders'
              /\ senders'[a] = senders[a]) =>
                /\ \A x \in Amounts \ {0} : ~SubFloat(a, x)
                /\ \A y \in Amounts \ {0} :
                      Pending(a) >= y =>
                          ~\E r \in AddFloatOutcomes(a, y) : AddFloat(a, y, r)
          /\ (/\ cleaner # "sweep"
              /\ a \in DOMAIN senders'
              /\ (a \in DOMAIN senders => senders'[a] # senders[a])) =>
                IF nonce' # nonce
                THEN (\E fv \in FaceValues : QueueTicket(a, fv)) =>
                          Pending(a)' = Pending(a)
                ELSE /\ \A x \in Amounts :
                          SubFloat(a, x) => Pending(a)' = Pending(a) + x
                     /\ \A y \in Amounts :
                          (\E r \in AddFloatOutcomes(a, y) : AddFloat(a, y, r)) =>
                              Pending(a)' = IF Pending(a) < y THEN Pending(a)
                                            ELSE Pending(a) - y
                     /\ (\E r \in MaxFloatOutcomes(a) : MaxFloat(a, r)) =>
                              Pending(a)' = Pending(a)
          /\ cleaner = "sweep" =>
                \A b \in Addrs \ {a} :
                    CleanupVisit(b) =>
                        /\ (a \in DOMAIN senders') = (a \in DOMAIN senders)
                        /\ Pending(a)' = Pending(a)
          /\ (a \notin DOMAIN senders /\ a \in DOMAIN senders') =>
                \/ \E x \in Amounts : SubFloat(a, x) /\ Pending(a)' = x
                \/ Pending(a)' = 0]_vars

\* a1 owes the maximum with a ticket queued, after a2 was evicted.
C33_Witness ==
    /\ "a2" \in cleared
    /\ "a2" \notin DOMAIN senders
    /\ Pending("a1") = MaxAmount
    /\ QueueLen("a1") > 0

\* ------------------------------------------------------- C38
\* The record of b is the same before and after the step (or b has none).
SameRecord(b) ==
    /\ (b \in DOMAIN senders') = (b \in DOMAIN senders)
    /\ b \in DOMAIN senders => senders'[b] = senders[b]

\* One of the four public calls on a.
CallOn(a) ==
    \/ \E fv \in FaceValues : QueueTicket(a, fv)
    \/ \E x \in Amounts : SubFloat(a, x)
    \/ \E y \in Amounts : \E r \in AddFloatOutcomes(a, y) : AddFloat(a, y, r)
    \/ \E r \in MaxFloatOutcomes(a) : MaxFloat(a, r)

\* C38: QueueTicket, SubFloat, AddFloat and MaxFloat on sender a leave the
\* record of every other sender b as it was: its pendingAmount, its
\* lastAccess, the tickets in its queue and its signal slot.
C38_SenderIsolation ==
    [][\A a \in Addrs : \A b \in Addrs \ {a} :
          SameRecord(b) \/ cleaner = "sweep" \/ ~CallOn(a)]_vars

\* a2 owes, holds a ticket and a signal, and was last touched before a1.
C38_Witness ==
    /\ "a1" \in DOMAIN senders
    /\ "a2" \in DOMAIN senders
    /\ senders["a2"].lastAccess < senders["a1"].lastAccess
    /\ senders["a2"].pendingAmount > 0
    /\ senders["a2"].queue.items # <<>>
    /\ senders["a2"].queue.sig # NoVal
    /\ senders["a1"].pendingAmount > 0
    /\ senders["a1"].queue.sig # NoVal

\* ------------------------------------------------------- C34
\* The number of places that hold the ticket with nonce n: the queues, the
\* consumers between receive and send, and what Redeemable() has delivered.
Copies(n) ==
    Cardinality({<<a, i>> \in (DOMAIN senders) \X (1 .. MaxTickets + MaxSweepTickets) :
                    /\ i <= Len(senders[a].queue.items)
                    /\ senders[a].queue.items[i].nonce = n})
    + Cardinality({a \in DOMAIN senders :
                    \E t \in senders[a].consumer.sending : t.nonce = n})
    + Cardinality({i \in DOMAIN redeemable : redeemable[i].nonce = n})

\* C34: whatever Redeemable() delivers was passed to QueueTicket before, and
\* no queued ticket is delivered twice: a ticket is in one place at a time,
\* whatever the signals, the sweep and Stop do in between.
C34_NoDuplicateNoInvent ==
    /\ \A i \in DOMAIN redeemable :
          /\ redeemable[i].nonce < nonce
          /\ redeemable[i].sender \in Addrs
          /\ redeemable[i].faceValue \in FaceValues
    /\ \A n \in 0 .. MaxTickets + MaxSweepTickets : Copies(n) <= 1

\* Every ticket that was queued has been delivered, and Stop was called.
C34_Witness ==
    /\ quit
    /\ nonce = MaxSweepTickets
    /\ Len(redeemable) = MaxSweepTickets

\* ------------------------------------------------------- C35
\* C35: the sweep evicts a1 while a1 owes p > 0; what the next access then
\* finds still accounts for p: MaxFloat(a1) answers alloc(a1) - p and
\* AddFloat(a1, p) passes its guard.
C35_EvictionKeepsCredit ==
    [][\A p \in 1 .. MaxPending :
          (/\ cleaner = "sweep"
           /\ Pending("a1") = p
           /\ CleanupVisit("a1")
           /\ "a1" \notin DOMAIN senders') =>
              /\ MaxFloatOutcomes("a1")' =
                    {Outcome(ErrNil, <<Share("a1")' - p>>, FALSE)}
              /\ Outcome(ErrInsufficient, NoVal, FALSE)
                    \notin AddFloatOutcomes("a1", p)']_vars

\* ------------------------------------------------------- C36
\* C36: a ticket that is in a1's queue when the sweep evicts a1 is not lost:
\* after the eviction it is still held somewhere (a queue, a consumer, or
\* delivered), which it must be to reach Redeemable() later on.
C36_EvictionKeepsTickets ==
    [][\A n \in 0 .. MaxSweepTickets :
          (/\ cleaner = "sweep"
           /\ Queued("a1", n)
           /\ CleanupVisit("a1")
           /\ "a1" \notin DOMAIN senders') => Copies(n)' >= 1]_vars

\* ------------------------------------------------------- C37
\* C37: before Stop the running consumers and the records of the sender map
\* correspond one to one: the consumer of every record runs, and no consumer
\* runs for a record that is no longer in the map, also when two calls make
\* the first access to the same address at the same time.
C37_NoOrphanedConsumers ==
    ~quit =>
        /\ orphans = {}
        /\ \A a \in DOMAIN senders : senders[a].consumer.alive

\* ------------------------------------------------------- C39
\* The client call of the handler was made and returned a transaction.
Submitted ==
    /\ Len(http.calls) >= 1
    /\ http.calls[1].name = http.handler
    /\ ~http.calls[1].err

\* One of the amounts the handler parses is no decimal number.
BadAmount ==
    \E i \in 1 .. Len(AmountParams(http.handler)) :
        ParseBigInt(http.form[AmountParams(http.handler)[i]]).err

\* C39: a transaction handler answers 200 with its success body only after
\* its client call returned a transaction and CheckTx(tx) returned no error;
\* CheckTx is called only after a submission that succeeded; a nil client
\* and every failed call end in a 500 without the success body; an amount
\* that does not parse ends in a 400 with no transaction submitted.
C39_TxHandlers ==
    http.invoked =>
        /\ http.status = 200 =>
              /\ Submitted
              /\ Len(http.calls) = 2
              /\ http.calls[2] = [name |-> "CheckTx", args |-> <<>>, err |-> FALSE]
        /\ http.body = <<http.handler, "success">> => http.status = 200
        /\ \A i \in 1 .. Len(http.calls) :
              /\ http.calls[i].name = "CheckTx" => i = 2 /\ Submitted
              /\ http.calls[i].err =>
                    /\ i = Len(http.calls)
                    /\ http.pc = "done"
                    /\ http.status = 500
        /\ ~http.client =>
              /\ http.calls = <<>>
              /\ http.pc = "done" => http.status = 500
        /\ (http.client /\ BadAmount) =>
              /\ http.calls = <<>>
              /\ http.pc = "done" => http.status = 400

\* fundDepositAndReserve has answered 200 for two amounts, one of them negative.
C39_Witness ==
    /\ http.status = 200
    /\ http.handler = "fundDepositAndReserve"
    /\ http.calls[1].args[1] < 0
    /\ http.calls[1].args[2] > 7

\* ------------------------------------------------------- C40
\* The form parses and every listed parameter has a value.
FormOk ==
    /\ ~http.badForm
    /\ \A i \in 1 .. Len(http.params) : http.form[http.params[i]] # <<>>

\* C40: mustHaveFormParams hands the request to the wrapped handler exactly
\* when the form parses and every listed parameter is non-empty; a form that
\* does not parse is answered 500, and otherwise the first listed parameter
\* without a value is answered 400 by name; in both cases the handler is
\* not invoked and no client call is made.
C40_MustHaveFormParams ==
    /\ http.pc = "mustHaveFormParams" => ~http.invoked
    /\ http.pc \notin {"idle", "mustHaveFormParams"} =>
          /\ http.invoked <=> FormOk
          /\ ~FormOk =>
                /\ http.pc = "done"
                /\ http.calls = <<>>
          /\ http.badForm =>
                /\ http.status = 500
                /\ http.body = <<"parse form error">>
          /\ (~http.badForm /\ ~FormOk) =>
                /\ http.status = 400
                /\ \E i \in 1 .. Len(http.params) :
                      /\ http.form[http.params[i]] = <<>>
                      /\ \A j \in 1 .. i - 1 : http.form[http.params[j]] # <<>>
                      /\ http.body = <<"missing form param", http.params[i]>>

\* The second listed parameter is the first one missing, and was answered 400.
C40_Witness ==
    /\ http.params = <<"depositAmount", "reserveAmount">>
    /\ http.status = 400
    /\ http.body = <<"missing form param", "reserveAmount">>
    /\ http.form["amount"] = <<>>

====
